---------------------------- MODULE Spec2Model ----------------------------
(***************************************************************************)
(* Model of the architecture-conformance analyzer of                       *)
(* src/build_expert_system.py (class HexagonalExpertSystem).               *)
(*                                                                         *)
(* A path is a sequence of segments (the parts between '/'); a segment is  *)
(* a sequence of atoms (pieces of the name), so that Python's substring    *)
(* test `kw in path`, str.endswith and `resolved + ext` are computed on    *)
(* the name itself.  The atoms of the model's file names are chosen so     *)
(* that no keyword of the code straddles two segments or lies inside an    *)
(* atom.  File content is a sequence of lines plus a count of blank lines. *)
(***************************************************************************)
EXTENDS Integers, Sequences, FiniteSets, TLC

VARIABLES
    fs,              \* the files on disk: absolute path -> content
    walk,            \* the order in which os.walk lists the files of fs
    root,            \* what project_path is on disk: a directory, missing, unreadable
    pc,              \* position of the caller (main) in the analysis
    todo,            \* files map_dependencies has still to analyse
    knowledge_graph, \* self.knowledge_graph (nx.DiGraph)
    code_patterns,   \* self.code_patterns
    best_practices,  \* self.best_practices
    violations,      \* self.violations
    metrics,         \* self.metrics
    clock,           \* datetime.now()
    runs,            \* number of analyze_codebase calls begun on this object
    reports,         \* the reports written by generate_report, oldest first
    function_names,  \* all_functions of calculate_project_metrics
    duplicated_lines \* metrics['duplicated_lines'] of calculate_project_metrics

vars == <<fs, walk, root, pc, todo, knowledge_graph, code_patterns, best_practices,
          violations, metrics, clock, runs, reports, function_names,
          duplicated_lines>>

\* Number of times main's sequence analyze_codebase(); generate_report() is run
\* on the same HexagonalExpertSystem.
MaxRuns == 2

-----------------------------------------------------------------------------
(* Sequences *)

Range(s) == {s[i] : i \in DOMAIN s}

RECURSIVE Reverse(_)
Reverse(s) == IF s = <<>> THEN <<>> ELSE Append(Reverse(Tail(s)), Head(s))

RECURSIVE SelectSeqBy(_, _)
\* the subsequence of s whose elements are in set S (a list comprehension)
SelectSeqBy(s, S) ==
    IF s = <<>> THEN <<>>
    ELSE IF Head(s) \in S THEN <<Head(s)>> \o SelectSeqBy(Tail(s), S)
         ELSE SelectSeqBy(Tail(s), S)

\* s[:n]
Take(s, n) == SubSeq(s, 1, IF Len(s) < n THEN Len(s) ELSE n)

-----------------------------------------------------------------------------
(* Strings: keywords are sequences of atoms, names are sequences of atoms *)

\* str.lower() on one atom
LowerAtom(a) ==
    CASE a = "Service"    -> "service"
      [] a = "Repository" -> "repository"
      [] a = "Controller" -> "controller"
      [] a = "User"       -> "user"
      [] a = "Order"      -> "order"
      [] a = "App"        -> "app"
      [] a = "Test"       -> "test"
      [] a = "Spec"       -> "spec"
      [] a = "Save"       -> "save"
      [] OTHER            -> a

LowerSeg(seg) == [i \in DOMAIN seg |-> LowerAtom(seg[i])]
LowerPath(p) == [i \in DOMAIN p |-> LowerSeg(p[i])]

\* kw in seg, for one path segment
KwInSeg(kw, seg) ==
    \E i \in 1..(Len(seg) - Len(kw) + 1) : SubSeq(seg, i, i + Len(kw) - 1) = kw

\* Python's `kw in path`: no keyword contains '/', so it lies in one segment
KwIn(kw, p) == \E i \in DOMAIN p : KwInSeg(kw, p[i])

\* path.endswith(suffix), the suffix holding no '/'
EndsWith(p, suffix) ==
    /\ p # <<>>
    /\ LET seg == p[Len(p)] IN
         /\ Len(seg) >= Len(suffix)
         /\ SubSeq(seg, Len(seg) - Len(suffix) + 1, Len(seg)) = suffix

\* str.startswith('.') on a raw import target
StartsWithDot(imp) == imp # <<>> /\ imp[1] # <<>> /\ imp[1][1] \in {".", ".."}

-----------------------------------------------------------------------------
(* os.path *)

dirname(p) == SubSeq(p, 1, Len(p) - 1)
basename(p) == <<p[Len(p)]>>

RECURSIVE NormInto(_, _)
\* os.path.normpath of an absolute path: stack is the normalised prefix
NormInto(stack, rest) ==
    IF rest = <<>> THEN stack
    ELSE LET s == Head(rest) IN
         IF s = <<".">> THEN NormInto(stack, Tail(rest))
         ELSE IF s = <<"..">>
              THEN NormInto(IF stack = <<>> THEN <<>> ELSE dirname(stack), Tail(rest))
              ELSE NormInto(Append(stack, s), Tail(rest))

normpath(p) == NormInto(<<>>, p)

\* os.path.join(dir, rel) for a relative rel
join(dir, rel) == dir \o rel

RECURSIVE CommonLen(_, _)
CommonLen(a, b) ==
    IF a = <<>> \/ b = <<>> \/ Head(a) # Head(b) THEN 0
    ELSE 1 + CommonLen(Tail(a), Tail(b))

\* os.path.relpath(p, start), both absolute and normalised
relpath(p, start) ==
    LET k == CommonLen(p, start) IN
      [i \in 1..(Len(start) - k) |-> <<"..">>] \o SubSeq(p, k + 1, Len(p))

\* resolved + ext, ext one of '.js', '.ts'
AddExt(p, ext) == IF p = <<>> THEN <<<<ext>>>>
                  ELSE [p EXCEPT ![Len(p)] = Append(@, ext)]

\* os.path.exists
exists(files, p) == p \in DOMAIN files


-----------------------------------------------------------------------------
(* File content: lines of JavaScript text *)

\* import X from '<target>'
ImportFrom(t) == [kind |-> "import_from", target |-> t, name |-> ""]
\* import '<target>'   (no from clause)
ImportBare(t) == [kind |-> "import_bare", target |-> t, name |-> ""]
\* const x = require('<target>')
Require(t)    == [kind |-> "require", target |-> t, name |-> ""]
\* <name>(args) {
Method(n)     == [kind |-> "method", target |-> <<>>, name |-> n]
\* if (cond) {     /  for (...) {
Control(n)    == [kind |-> "control", target |-> <<>>, name |-> n]
\* // <name>(args) {
Comment(n)    == [kind |-> "comment", target |-> <<>>, name |-> n]
\* any other statement, named by its text
Text(n)       == [kind |-> "text", target |-> <<>>, name |-> n]

\* len(content.split('\n'))
LineCount(content) == Len(content.lines) + content.pad

RECURSIVE ImportsOfLines(_)
ImportsOfLines(ls) ==
    IF ls = <<>> THEN <<>>
    ELSE LET l == Head(ls) IN
         \* line.startswith('import ') and the regex finds  from '...'
         IF l.kind = "import_from" THEN <<l.target>> \o ImportsOfLines(Tail(ls))
         \* line.startswith('import ') but no match: the elif is not tried
         ELSE IF l.kind = "import_bare" THEN ImportsOfLines(Tail(ls))
         \* 'require(' in line and the regex matches
         ELSE IF l.kind = "require" THEN <<l.target>> \o ImportsOfLines(Tail(ls))
         ELSE ImportsOfLines(Tail(ls))

\* mutant: only the ES6 imports are extracted, require() lines are missed
extract_imports_es6_only(content) ==
    LET IsImportFrom(l) == l.kind = "import_from"
        from_lines == SelectSeq(content.lines, IsImportFrom)
    IN [i \in DOMAIN from_lines |-> from_lines[i].target]

extract_imports(content) == ImportsOfLines(content.lines)

RECURSIVE MethodsOfLines(_)
MethodsOfLines(ls) ==
    IF ls = <<>> THEN <<>>
    ELSE LET l == Head(ls) IN
         \* ends with '{', has '(' and ')', does not start with if / for,
         \* and the text before '(' does not start with '//'
         IF l.kind = "method" THEN <<l.name>> \o MethodsOfLines(Tail(ls))
         ELSE MethodsOfLines(Tail(ls))

\* methods[:10]
MethodsCap == 10

extract_methods(content) == Take(MethodsOfLines(content.lines), MethodsCap)

-----------------------------------------------------------------------------
(* Layers *)

classify_file(file_path) ==
    IF KwIn(<<"domain">>, file_path)
    THEN IF KwIn(<<"entities">>, file_path) THEN "domain-entity"
         ELSE IF KwIn(<<"service", "s">>, file_path) THEN "domain-service"
         ELSE IF KwIn(<<"ports">>, file_path) THEN "domain-port"
         ELSE "other"
    ELSE IF KwIn(<<"infrastructure">>, file_path)
    THEN IF KwIn(<<"web">>, file_path) THEN "infrastructure-web"
         ELSE IF KwIn(<<"database">>, file_path) THEN "infrastructure-database"
         ELSE IF KwIn(<<"auth">>, file_path) THEN "infrastructure-auth"
         ELSE "other"
    ELSE IF KwIn(<<"test">>, file_path) THEN "test"
    ELSE "other"

\* EnhancedCodeIndexer.detect_layer (create_enhanced_indexer.py), on the
\* absolute path of an indexed file
detect_layer(file_path) ==
    LET path_lower == LowerPath(file_path) IN
    IF KwIn(<<"domain">>, path_lower)
    THEN IF KwIn(<<"entities">>, path_lower) THEN "domain-entity"
         ELSE IF KwIn(<<"service", "s">>, path_lower) THEN "domain-service"
         ELSE IF KwIn(<<"ports">>, path_lower) THEN "domain-port"
         ELSE "domain"
    ELSE IF KwIn(<<"infrastructure">>, path_lower)
    THEN IF KwIn(<<"web">>, path_lower) \/ KwIn(<<"controller">>, path_lower)
         THEN "infrastructure-web"
         ELSE IF KwIn(<<"database">>, path_lower) \/ KwIn(<<"repository">>, path_lower)
         THEN "infrastructure-database"
         ELSE IF KwIn(<<"auth">>, path_lower) THEN "infrastructure-auth"
         ELSE IF KwIn(<<"email">>, path_lower) THEN "infrastructure-email"
         ELSE "infrastructure"
    ELSE IF KwIn(<<"application">>, path_lower) THEN "application"
    ELSE IF KwIn(<<"test">>, path_lower) THEN "test"
    ELSE "other"

LevelDomain == 1
LevelApplication == 2
LevelInfrastructure == 3
LevelDefault == 2

\* mutant: the ranks of domain and infrastructure are exchanged
get_layer_level_outside_in(file_path) ==
    IF KwIn(<<"domain">>, file_path) THEN LevelInfrastructure
    ELSE IF KwIn(<<"application">>, file_path) THEN LevelApplication
    ELSE IF KwIn(<<"infrastructure">>, file_path) THEN LevelDomain
    ELSE LevelDefault

get_layer_level(file_path) ==
    IF KwIn(<<"domain">>, file_path) THEN LevelDomain
    ELSE IF KwIn(<<"application">>, file_path) THEN LevelApplication
    ELSE IF KwIn(<<"infrastructure">>, file_path) THEN LevelInfrastructure
    ELSE LevelDefault

-----------------------------------------------------------------------------
(* nx.DiGraph: nodes and each node's successors in insertion order *)

EmptyGraph == [nodes |-> <<>>, type |-> <<>>, adj |-> <<>>]

has_node(G, n) == n \in Range(G.nodes)

\* the node is created with no attribute
touch_node(G, n) ==
    IF has_node(G, n) THEN G
    ELSE [nodes |-> Append(G.nodes, n),
          type  |-> (n :> "none") @@ G.type,
          adj   |-> (n :> <<>>) @@ G.adj]

add_node(G, n, t) == [touch_node(G, n) EXCEPT !.type[n] = t]

\* mutant: every import adds an edge of its own (a list of edges, no set)
add_edge_multi(G, u, v) ==
    LET G2 == touch_node(touch_node(G, u), v) IN
      [G2 EXCEPT !.adj[u] = Append(@, v)]

add_edge(G, u, v) ==
    LET G2 == touch_node(touch_node(G, u), v) IN
      IF v \in Range(G2.adj[u]) THEN G2
      ELSE [G2 EXCEPT !.adj[u] = Append(@, v)]

successors(G, n) == G.adj[n]

RECURSIVE EdgesFrom(_, _)
EdgesFrom(G, ns) ==
    IF ns = <<>> THEN <<>>
    ELSE [i \in DOMAIN G.adj[Head(ns)] |-> <<Head(ns), G.adj[Head(ns)][i]>>]
         \o EdgesFrom(G, Tail(ns))

\* G.edges(), in the order networkx iterates them
edges(G) == EdgesFrom(G, G.nodes)

out_degree(G, n) == Len(G.adj[n])
in_degree(G, n) == Cardinality({m \in Range(G.nodes) : n \in Range(G.adj[m])})

-----------------------------------------------------------------------------
(* Building the graph *)

ResolveSuffixes == <<"js", "ts", "index.js", "index.ts">>

candidate(resolved, k) ==
    CASE k = 1 -> AddExt(resolved, ".js")
      [] k = 2 -> AddExt(resolved, ".ts")
      [] k = 3 -> Append(resolved, <<"index", ".js">>)
      [] k = 4 -> Append(resolved, <<"index", ".ts">>)

\* mutant: the import is looked up as written, no extension is tried
resolve_import_path_as_written(files, from_file, import_path) ==
    IF ~StartsWithDot(import_path) THEN <<>>
    ELSE LET resolved == normpath(join(dirname(from_file), import_path))
         IN IF exists(files, resolved) THEN resolved ELSE <<>>

\* mutant: the last existing candidate is returned, not the first
resolve_import_path_last_match(files, from_file, import_path) ==
    IF ~StartsWithDot(import_path) THEN <<>>
    ELSE LET resolved == normpath(join(dirname(from_file), import_path))
             found == {k \in DOMAIN ResolveSuffixes : exists(files, candidate(resolved, k))}
         IN IF found = {} THEN <<>>
            ELSE candidate(resolved, CHOOSE k \in found : \A j \in found : k >= j)

\* the result is <<>> for Python's None
resolve_import_path(files, from_file, import_path) ==
    IF ~StartsWithDot(import_path) THEN <<>>
    ELSE LET resolved == normpath(join(dirname(from_file), import_path))
             found == {k \in DOMAIN ResolveSuffixes : exists(files, candidate(resolved, k))}
         IN IF found = {} THEN <<>>
            ELSE candidate(resolved, CHOOSE k \in found : \A j \in found : k <= j)

RECURSIVE AddImports_all_targets(_, _, _, _, _)
\* mutant: a package name is looked up next to the importing file as well
AddImports_all_targets(G, files, project_path, file_path, imports) ==
    IF imports = <<>> THEN G
    ELSE LET imp == Head(imports)
             resolved == normpath(join(dirname(file_path), imp))
             found == {k \in DOMAIN ResolveSuffixes : exists(files, candidate(resolved, k))}
             dep_path == IF found = {} THEN <<>>
                         ELSE candidate(resolved, CHOOSE k \in found : \A j \in found : k <= j)
             G2 == IF dep_path # <<>>
                   THEN add_edge(G, relpath(file_path, project_path),
                                    relpath(dep_path, project_path))
                   ELSE G
         IN AddImports_all_targets(G2, files, project_path, file_path, Tail(imports))

RECURSIVE AddImports(_, _, _, _, _)
AddImports(G, files, project_path, file_path, imports) ==
    IF imports = <<>> THEN G
    ELSE LET imp == Head(imports)
             dep_path == IF StartsWithDot(imp)
                         THEN resolve_import_path(files, file_path, imp)
                         ELSE <<>>
             G2 == IF dep_path # <<>>
                   THEN add_edge(G, relpath(file_path, project_path),
                                    relpath(dep_path, project_path))
                   ELSE G
         IN AddImports(G2, files, project_path, file_path, Tail(imports))

\* the graph after analyze_file_dependencies(file_path); a failed read is
\* caught and leaves the graph as it was
analyze_file_dependencies(G, files, project_path, file_path) ==
    IF ~files[file_path].readable THEN G
    ELSE AddImports(add_node(G, relpath(file_path, project_path), classify_file(file_path)),
                    files, project_path, file_path,
                    extract_imports(files[file_path]))

ExcludedDirs == {<<"node_modules">>, <<".git">>}

\* the files map_dependencies analyses, in the order os.walk lists them
ScannedFiles(order, project_path) ==
    SelectSeqBy(order,
        {f \in Range(order) :
            /\ Len(f) > Len(project_path)
            /\ SubSeq(f, 1, Len(project_path)) = project_path
            /\ ~\E x \in ExcludedDirs : KwIn(x, dirname(f))
            /\ EndsWith(f, <<".js">>)})

\* CodeMetricsCalculator.calculate_project_metrics (analyzers/code_metrics.py):
\* dirs[:] keeps the directories whose name is not in this list
MetricsExcludedDirs ==
    {<<".git">>, <<"node_modules">>, <<"__pycache__">>, <<"venv">>, <<"target">>}

\* the files its walk measures for language 'javascript', in listing order
MeasuredFiles(order, project_path) ==
    SelectSeqBy(order,
        {f \in Range(order) :
            /\ Len(f) > Len(project_path)
            /\ SubSeq(f, 1, Len(project_path)) = project_path
            /\ \A i \in (Len(project_path) + 1)..(Len(f) - 1) : f[i] \notin MetricsExcludedDirs
            /\ EndsWith(f, <<".js">>) \/ EndsWith(f, <<".jsx">>)})

\* ProjectAnalyzer.analyze_project (analyzers/project_analyzer.py): how the
\* call ends for a root that is a directory, missing or unreadable
analyze_project(r) ==
    IF r = "missing" THEN "returns_empty_dict" ELSE "returns_analysis"

-----------------------------------------------------------------------------
(* Reading a node's file back, and the words of its text *)

\* [y for x in s for y in F(x)]
FlatMap(s, F(_)) ==
    LET f[i \in 0..Len(s)] == IF i = 0 THEN <<>> ELSE f[i - 1] \o F(s[i])
    IN f[Len(s)]

\* os.path.join(self.project_path, node), as open() follows it
NodeFile(project_path, node) == normpath(join(project_path, node))

\* open(file_path).read() succeeds
CanRead(files, project_path, node) ==
    /\ exists(files, NodeFile(project_path, node))
    /\ files[NodeFile(project_path, node)].readable

ContentOf(files, project_path, node) == files[NodeFile(project_path, node)]

\* the keywords of the code found in a method name (all lower case already)
NameWords(n) ==
    CASE n = "constructor"  -> {"constructor("}
      [] n = "save"         -> {"save"}
      [] n = "findById"     -> {"find"}
      [] n = "createOrder"  -> {"create"}
      [] n = "validate"     -> {"validate"}
      [] n = "update"       -> {"update"}
      [] n = "process"      -> {"process"}
      [] n = "calculate"    -> {"calculate"}
      [] n = "buildReport"  -> {"build"}
      [] OTHER              -> {}

\* the keywords of the code found in one line of text
LineWords(l) ==
    CASE l.kind \in {"import_from", "import_bare"} ->
            {"import "} \cup {w \in {"express", "mongoose"} : KwIn(<<w>>, l.target)}
      [] l.kind = "require" ->
            {"require("} \cup {w \in {"express", "mongoose"} : KwIn(<<w>>, l.target)}
      [] l.kind \in {"method", "comment"} -> NameWords(l.name)
      [] l.kind = "control" -> {IF l.name = "if" THEN "if " ELSE "for "}
      [] l.kind = "text" ->
            CASE l.name = "class"      -> {"class ", "class"}
              [] l.name = "this"       -> {"this."}
              [] l.name = "return_new" -> {"return ", "new "}
              [] OTHER                 -> {}

\* w in content (the model's texts are lower case wherever a keyword is, so
\* w in content.lower() is the same test)
Mentions(content, w) == \E i \in DOMAIN content.lines : w \in LineWords(content.lines[i])
MentionsAny(content, ws) == \E w \in ws : Mentions(content, w)

\* content.count(w)
CountWord(content, w) ==
    Cardinality({i \in DOMAIN content.lines : w \in LineWords(content.lines[i])})

-----------------------------------------------------------------------------
(* detect_patterns *)

detect_repository_pattern(G, files, project_path) ==
    LET One(node) ==
          IF ~KwIn(<<"repository">>, LowerPath(node)) THEN <<>>
          ELSE IF ~CanRead(files, project_path, node) THEN <<>>
          ELSE LET content == ContentOf(files, project_path, node)
                   has_crud == MentionsAny(content, {"save", "find", "delete", "update"})
                   has_interface == MentionsAny(content, {"class ", "function "})
               IN IF has_crud /\ has_interface
                  THEN <<[file |-> node, methods |-> extract_methods(content),
                          score |-> "good"]>>
                  ELSE <<>>
    IN FlatMap(G.nodes, One)

detect_service_pattern(G, files, project_path) ==
    LET One(node) ==
          IF ~(KwIn(<<"service">>, LowerPath(node)) /\ KwIn(<<"domain">>, node)) THEN <<>>
          ELSE IF ~CanRead(files, project_path, node) THEN <<>>
          ELSE LET content == ContentOf(files, project_path, node) IN
               <<[file |-> node, methods |-> extract_methods(content),
                  has_business_logic |->
                      MentionsAny(content, {"validate", "process", "calculate",
                                            "business", "rule"}),
                  dependencies |-> successors(G, node)]>>
    IN FlatMap(G.nodes, One)

detect_dependency_injection(G, files, project_path) ==
    LET One(node) ==
          IF ~CanRead(files, project_path, node) THEN <<>>
          ELSE LET content == ContentOf(files, project_path, node)
                   constructor_injection ==
                       Mentions(content, "constructor(") /\ Mentions(content, "this.")
                   method_injection ==
                       MentionsAny(content, {"inject(", "dependency", "Container", "DI"})
               IN IF constructor_injection \/ method_injection
                  THEN <<[file |-> node,
                          type |-> IF constructor_injection THEN "constructor" ELSE "method",
                          score |-> IF constructor_injection THEN "good" ELSE "partial"]>>
                  ELSE <<>>
    IN FlatMap(G.nodes, One)

ExternalLibs == {"mongodb", "mongoose", "express", "nodemailer", "bcrypt", "jsonwebtoken"}

\* list(set(...)): kept as the set
extract_external_dependencies(content) ==
    {lib \in ExternalLibs :
        \E i \in DOMAIN content.lines :
            /\ LineWords(content.lines[i]) \cap {"require(", "import "} # {}
            /\ lib \in LineWords(content.lines[i])}

detect_adapter_pattern(G, files, project_path) ==
    LET One(node) ==
          IF ~KwIn(<<"infrastructure">>, node) THEN <<>>
          ELSE IF ~CanRead(files, project_path, node) THEN <<>>
          ELSE LET content == ContentOf(files, project_path, node)
                   implements_interface ==
                       MentionsAny(content, {"implements", "extends", "class", "prototype"})
                   external_dependency ==
                       MentionsAny(content, {"mongodb", "mongoose", "express",
                                             "nodemailer", "bcrypt", "jwt"})
               IN IF implements_interface /\ external_dependency
                  THEN <<[file |-> node,
                          external_deps |-> extract_external_dependencies(content),
                          interface_methods |-> extract_methods(content)]>>
                  ELSE <<>>
    IN FlatMap(G.nodes, One)

detect_factory_pattern(G, files, project_path) ==
    LET One(node) ==
          IF ~CanRead(files, project_path, node) THEN <<>>
          ELSE LET content == ContentOf(files, project_path, node)
                   has_create_method ==
                       MentionsAny(content, {"create", "build", "make", "factory"})
                   returns_instances == MentionsAny(content, {"new ", "return "})
                   IsFactory(m) == NameWords(m) \cap {"create", "build", "make"} # {}
               IN IF has_create_method /\ returns_instances
                  THEN <<[file |-> node,
                          factory_methods |->
                              SelectSeq(extract_methods(content), IsFactory)]>>
                  ELSE <<>>
    IN FlatMap(G.nodes, One)

detect_patterns(G, files, project_path) ==
    [repository_pattern   |-> detect_repository_pattern(G, files, project_path),
     service_pattern      |-> detect_service_pattern(G, files, project_path),
     dependency_injection |-> detect_dependency_injection(G, files, project_path),
     adapter_pattern      |-> detect_adapter_pattern(G, files, project_path),
     factory_pattern      |-> detect_factory_pattern(G, files, project_path)]

-----------------------------------------------------------------------------
(* check_best_practices *)

\* if len(methods) > 7
SrpThreshold == 7

\* mutant: the threshold is met at 7 methods already (>= for >)
check_single_responsibility_ge(G, files, project_path) ==
    LET One(node) ==
          IF ~KwIn(<<"service">>, LowerPath(node)) THEN <<>>
          ELSE IF ~CanRead(files, project_path, node) THEN <<>>
          ELSE LET methods == extract_methods(ContentOf(files, project_path, node)) IN
               IF Len(methods) >= SrpThreshold
               THEN <<[file |-> node, issue |-> <<"Trop de methodes", Len(methods)>>,
                       severity |-> "medium"]>>
               ELSE <<>>
    IN FlatMap(G.nodes, One)

check_single_responsibility(G, files, project_path) ==
    LET One(node) ==
          IF ~KwIn(<<"service">>, LowerPath(node)) THEN <<>>
          ELSE IF ~CanRead(files, project_path, node) THEN <<>>
          ELSE LET methods == extract_methods(ContentOf(files, project_path, node)) IN
               IF Len(methods) > SrpThreshold
               THEN <<[file |-> node, issue |-> <<"Trop de methodes", Len(methods)>>,
                       severity |-> "medium"]>>
               ELSE <<>>
    IN FlatMap(G.nodes, One)

\* mutant: the comparison of the two levels turned around
check_dependency_direction_reversed(G) ==
    LET One(edge) ==
          IF get_layer_level(edge[1]) < get_layer_level(edge[2])
          THEN <<[source |-> edge[1], target |-> edge[2],
                  issue |-> "Dependance dans le mauvais sens",
                  severity |-> "high"]>>
          ELSE <<>>
    IN FlatMap(edges(G), One)

check_dependency_direction(G) ==
    LET One(edge) ==
          LET source == edge[1]
              target == edge[2]
              source_layer == get_layer_level(source)
              target_layer == get_layer_level(target)
          IN IF source_layer > target_layer
             THEN <<[source |-> source, target |-> target,
                     issue |-> "Dependance dans le mauvais sens",
                     severity |-> "high"]>>
             ELSE <<>>
    IN FlatMap(edges(G), One)

\* mutant: the predecessors of a domain node are inspected, not its successors
check_layer_isolation_predecessors(G) ==
    LET domain_nodes == SelectSeqBy(G.nodes, {n \in Range(G.nodes) : KwIn(<<"domain">>, n)})
        One(domain_node) ==
          LET Dep(dep) ==
                IF domain_node \in Range(G.adj[dep]) /\ KwIn(<<"infrastructure">>, dep)
                THEN <<[file |-> domain_node, dependency |-> dep,
                        issue |-> "Domain depend d'Infrastructure",
                        severity |-> "critical"]>>
                ELSE <<>>
          IN FlatMap(G.nodes, Dep)
    IN FlatMap(domain_nodes, One)

check_layer_isolation(G) ==
    LET domain_nodes == SelectSeqBy(G.nodes, {n \in Range(G.nodes) : KwIn(<<"domain">>, n)})
        OneDep(domain_node, dep) ==
          IF KwIn(<<"infrastructure">>, dep)
          THEN <<[file |-> domain_node, dependency |-> dep,
                  issue |-> "Domain depend d'Infrastructure",
                  severity |-> "critical"]>>
          ELSE <<>>
        One(domain_node) ==
          LET dependencies == successors(G, domain_node)
              Dep(dep) == OneDep(domain_node, dep)
          IN FlatMap(dependencies, Dep)
    IN FlatMap(domain_nodes, One)

\* os.path.basename(prod_file).replace('.js', '')
BaseName(node) == LET IsNotJs(a) == a # ".js" IN SelectSeq(node[Len(node)], IsNotJs)

check_test_coverage(G) ==
    LET prod_files == {n \in Range(G.nodes) :
                          ~KwIn(<<"test">>, LowerPath(n)) /\ EndsWith(n, <<".js">>)}
        test_files == SelectSeqBy(G.nodes,
                          {n \in Range(G.nodes) : KwIn(<<"test">>, LowerPath(n))})
    IN [prod_file \in prod_files |->
          LET matching == SelectSeqBy(test_files,
                              {t \in Range(test_files) : KwIn(BaseName(prod_file), t)})
          IN [has_test |-> matching # <<>>, test_files |-> matching]]

\* mutant: the suffix is compared on the lower-cased filename
check_naming_conventions_lowercase(G) ==
    LET One(node) ==
          LET filename == LowerPath(basename(node)) IN
          IF KwIn(<<"service">>, filename)
          THEN IF ~EndsWith(filename, <<"service", ".js">>)
               THEN <<[file |-> node, issue |-> "Service devrait finir par Service.js",
                       severity |-> "low"]>>
               ELSE <<>>
          ELSE IF KwIn(<<"repository">>, filename)
          THEN IF ~EndsWith(filename, <<"repository", ".js">>)
               THEN <<[file |-> node, issue |-> "Repository devrait finir par Repository.js",
                       severity |-> "low"]>>
               ELSE <<>>
          ELSE <<>>
    IN FlatMap(G.nodes, One)

check_naming_conventions(G) ==
    LET One(node) ==
          LET filename == basename(node) IN
          IF KwIn(<<"service">>, LowerPath(filename))
          THEN IF ~EndsWith(filename, <<"Service", ".js">>)
               THEN <<[file |-> node, issue |-> "Service devrait finir par Service.js",
                       severity |-> "low"]>>
               ELSE <<>>
          ELSE IF KwIn(<<"repository">>, LowerPath(filename))
          THEN IF ~EndsWith(filename, <<"Repository", ".js">>)
               THEN <<[file |-> node, issue |-> "Repository devrait finir par Repository.js",
                       severity |-> "low"]>>
               ELSE <<>>
          ELSE <<>>
    IN FlatMap(G.nodes, One)

check_best_practices(G, files, project_path) ==
    [single_responsibility |-> check_single_responsibility(G, files, project_path),
     dependency_direction  |-> check_dependency_direction(G),
     layer_isolation       |-> check_layer_isolation(G),
     test_coverage         |-> check_test_coverage(G),
     naming_conventions    |-> check_naming_conventions(G)]

-----------------------------------------------------------------------------
(* calculate_metrics; a quotient a / b is kept as the pair <<a, b>> *)

DecisionWords == {"if ", "else ", "for ", "while ", "case ", "catch "}

RECURSIVE SumOver(_, _)
SumOver(f, S) == IF S = {} THEN 0
                 ELSE LET x == CHOOSE y \in S : TRUE IN f[x] + SumOver(f, S \ {x})

FileComplexity(content) ==
    SumOver([w \in DecisionWords |-> CountWord(content, w)], DecisionWords) + 1

\* mutant: the test files are measured as well
calculate_cyclomatic_complexity_with_tests(G, files, project_path) ==
    LET measured == {n \in Range(G.nodes) :
                        /\ EndsWith(n, <<".js">>)
                        /\ CanRead(files, project_path, n)}
        total_complexity ==
            SumOver([n \in measured |-> FileComplexity(ContentOf(files, project_path, n))],
                    measured)
        file_count == Cardinality(measured)
    IN IF file_count > 0 THEN <<total_complexity, file_count>> ELSE <<0, 1>>

calculate_cyclomatic_complexity(G, files, project_path) ==
    LET measured == {n \in Range(G.nodes) :
                        /\ EndsWith(n, <<".js">>)
                        /\ ~KwIn(<<"test">>, LowerPath(n))
                        /\ CanRead(files, project_path, n)}
        total_complexity ==
            SumOver([n \in measured |-> FileComplexity(ContentOf(files, project_path, n))],
                    measured)
        file_count == Cardinality(measured)
    IN IF file_count > 0 THEN <<total_complexity, file_count>> ELSE <<0, 1>>

\* mutant: in-degree and out-degree taken for each other
calculate_coupling_swapped(G) ==
    [node \in Range(G.nodes) |->
        LET in_deg == out_degree(G, node)
            out_deg == in_degree(G, node)
        IN [afferent |-> in_deg,
            efferent |-> out_deg,
            instability |-> IF in_deg + out_deg > 0
                            THEN <<out_deg, in_deg + out_deg>>
                            ELSE <<0, 1>>]]

calculate_coupling(G) ==
    [node \in Range(G.nodes) |->
        LET in_deg == in_degree(G, node)
            out_deg == out_degree(G, node)
        IN [afferent |-> in_deg,
            efferent |-> out_deg,
            instability |-> IF in_deg + out_deg > 0
                            THEN <<out_deg, in_deg + out_deg>>
                            ELSE <<0, 1>>]]

\* test_ratio and domain_ratio are <<>> when the keys are not set
calculate_metrics(G, files, project_path) ==
    LET js_files == SelectSeqBy(G.nodes, {n \in Range(G.nodes) : EndsWith(n, <<".js">>)})
        test_files == SelectSeqBy(js_files,
                          {n \in Range(js_files) : KwIn(<<"test">>, LowerPath(n))})
        domain_files == SelectSeqBy(js_files,
                          {n \in Range(js_files) : KwIn(<<"domain">>, n)})
        infrastructure_files == SelectSeqBy(js_files,
                          {n \in Range(js_files) : KwIn(<<"infrastructure">>, n)})
    IN [total_files |-> Len(js_files),
        test_files |-> Len(test_files),
        domain_files |-> Len(domain_files),
        infrastructure_files |-> Len(infrastructure_files),
        cyclomatic_complexity |-> calculate_cyclomatic_complexity(G, files, project_path),
        coupling_metrics |-> calculate_coupling(G),
        test_ratio |-> IF Len(js_files) > 0 THEN <<Len(test_files), Len(js_files)>>
                       ELSE <<>>,
        domain_ratio |-> IF Len(js_files) > 0 THEN <<Len(domain_files), Len(js_files)>>
                         ELSE <<>>]

-----------------------------------------------------------------------------
(* detect_code_smells *)

\* if lines > 200
LongFileLines == 200
\* if len(methods) > 10
TooManyMethods == 10

\* the smells list of one run; the caller extends self.violations with it
detect_code_smells(G, files, project_path) ==
    LET One(node) ==
          IF ~EndsWith(node, <<".js">>) THEN <<>>
          ELSE IF ~CanRead(files, project_path, node) THEN <<>>
          ELSE LET content == ContentOf(files, project_path, node)
                   lines == LineCount(content)
                   methods == extract_methods(content)
                   file_smells ==
                       (IF lines > LongFileLines
                        THEN <<[type |-> "long_file", severity |-> "medium",
                                details |-> lines]>>
                        ELSE <<>>)
                       \o
                       (IF Len(methods) > TooManyMethods
                        THEN <<[type |-> "too_many_methods", severity |-> "medium",
                                details |-> Len(methods)]>>
                        ELSE <<>>)
               IN IF file_smells # <<>>
                  THEN <<[file |-> node, smells |-> file_smells]>>
                  ELSE <<>>
    IN FlatMap(G.nodes, One)

-----------------------------------------------------------------------------
(* generate_report *)

\* a / b < c / d, for positive b and d
FracLess(a, b, c, d) == a * d < c * b

\* self.metrics.get(key, 0)
MetricOr0(m, key) ==
    IF key \in DOMAIN m /\ m[key] # <<>> THEN m[key] ELSE <<0, 1>>

\* mutant: the thresholds are taken inclusive (<= 0.8, >= 15)
generate_recommendations_inclusive(m) ==
    LET test_ratio == MetricOr0(m, "test_ratio")
        complexity == MetricOr0(m, "cyclomatic_complexity")
    IN (IF ~FracLess(8, 10, test_ratio[1], test_ratio[2])
        THEN <<[type |-> "testing", priority |-> "high", message |-> test_ratio]>>
        ELSE <<>>)
       \o
       (IF ~FracLess(complexity[1], complexity[2], 15, 1)
        THEN <<[type |-> "complexity", priority |-> "medium", message |-> complexity]>>
        ELSE <<>>)

generate_recommendations(m) ==
    LET test_ratio == MetricOr0(m, "test_ratio")
        complexity == MetricOr0(m, "cyclomatic_complexity")
    IN (IF FracLess(test_ratio[1], test_ratio[2], 8, 10)
        THEN <<[type |-> "testing", priority |-> "high", message |-> test_ratio]>>
        ELSE <<>>)
       \o
       (IF FracLess(15, 1, complexity[1], complexity[2])
        THEN <<[type |-> "complexity", priority |-> "medium", message |-> complexity]>>
        ELSE <<>>)

generate_report(now, project_path, m, patterns, practices, viols) ==
    [timestamp |-> now,
     project_path |-> project_path,
     metrics |-> m,
     patterns |-> patterns,
     best_practices |-> practices,
     violations |-> viols,
     recommendations |-> generate_recommendations(m)]

-----------------------------------------------------------------------------
(* The projects analysed: a root, seven candidate files, and for each file  *)
(* the contents it may have.                                                *)

\* self.project_path
ProjectPath == << <<"home">>, <<"proj">> >>

InProject(dir, name) == ProjectPath \o << <<dir>>, name >>

UserJs           == InProject("domain", <<"User", ".js">>)
OrderServiceJs   == InProject("domain", <<"Order", "Service", ".js">>)
UserRepositoryJs == InProject("infrastructure", <<"User", "Repository", ".js">>)
UserControllerJs == InProject("infrastructure", <<"User", "Controller", ".js">>)
DbJs             == InProject("infrastructure", <<"db", ".js">>)
DbTs             == InProject("infrastructure", <<"db", ".ts">>)
AppJs            == InProject("application", <<"App", ".js">>)

\* one listing order of os.walk: directory by directory
Universe == <<UserJs, OrderServiceJs, UserRepositoryJs, UserControllerJs, DbJs, DbTs, AppJs>>

\* raw import targets, as written in the importing file
ToDomainUser         == << <<"..">>, <<"domain">>, <<"User">> >>
ToDomainOrderService == << <<"..">>, <<"domain">>, <<"Order", "Service">> >>
ToInfraDb            == << <<"..">>, <<"infrastructure">>, <<"db">> >>
ToApp                == << <<"..">>, <<"application">>, <<"App">> >>
ToSiblingUser        == << <<".">>, <<"User">> >>
ToSiblingRepository  == << <<".">>, <<"User", "Repository">> >>
ToSiblingController  == << <<".">>, <<"User", "Controller">> >>
ToMissing            == << <<".">>, <<"missing">> >>
ToExpress            == << <<"express">> >>

MethodNames == <<"constructor", "save", "findById", "createOrder", "validate", "update",
                 "process", "calculate", "buildReport", "notify", "getAll", "remove">>

MethodLines(n) == [i \in 1..n |-> Method(MethodNames[i])]

File(lines, pad) == [lines |-> lines, pad |-> pad, readable |-> TRUE]
\* a file whose read fails (no permission, or bytes that do not decode)
Unreadable(lines, pad) == [lines |-> lines, pad |-> pad, readable |-> FALSE]
\* no such file
Absent == [lines |-> <<>>, pad |-> -1, readable |-> FALSE]

Menu(f) ==
    CASE f = UserJs ->
           { File(<<Text("class"), Method("constructor"), Text("this")>>, 1),
             File(<<Require(ToInfraDb), ImportFrom(ToExpress)>>, 201) }
      [] f = OrderServiceJs ->
           { File(MethodLines(7), 1),
             File(<<Require(ToInfraDb)>> \o MethodLines(9), 1),
             File(<<Require(ToInfraDb), ImportFrom(ToSiblingUser), Require(ToInfraDb),
                    ImportBare(ToApp), Control("if"), Comment("save")>>
                  \o MethodLines(12), 201),
             Unreadable(<<Require(ToInfraDb)>> \o MethodLines(9), 1) }
      [] f = UserRepositoryJs ->
           { File(<<ImportFrom(ToDomainUser), Text("class"), Method("save")>>, 1),
             File(<<Require(ToMissing), Require(ToDomainOrderService)>>, 1) }
      [] f = UserControllerJs ->
           { File(<<ImportFrom(ToSiblingRepository)>>, 1),
             File(<<Require(ToSiblingController), Require(ToApp), Require(ToExpress),
                    Text("class")>>, 1) }
      [] f = DbJs -> { File(<<>>, 1) }
      [] f = DbTs -> { File(<<>>, 1) }
      [] f = AppJs ->
           { File(<<ImportFrom(ToDomainOrderService)>>, 1),
             File(<<Require(ToInfraDb), Text("return_new"), Method("createOrder")>>, 1) }

Options(f) == Menu(f) \cup {Absent}

\* the file system holding the chosen content of each candidate file
Project(choice) ==
    [f \in {g \in Range(Universe) : choice[g] # Absent} |-> choice[f]]

\* the listing orders of os.walk over a file system
WalkOrders(files) ==
    LET present == SelectSeqBy(Universe, DOMAIN files)
    IN {present, Reverse(present)}

-----------------------------------------------------------------------------
(* The analyzer: main() on one HexagonalExpertSystem *)

Init ==
    /\ \E c1 \in Options(UserJs), c2 \in Options(OrderServiceJs),
          c3 \in Options(UserRepositoryJs), c4 \in Options(UserControllerJs),
          c5 \in Options(DbJs), c6 \in Options(DbTs), c7 \in Options(AppJs) :
         fs = Project([i \in Range(Universe) |->
                          CASE i = UserJs -> c1
                            [] i = OrderServiceJs -> c2
                            [] i = UserRepositoryJs -> c3
                            [] i = UserControllerJs -> c4
                            [] i = DbJs -> c5
                            [] i = DbTs -> c6
                            [] i = AppJs -> c7])
    /\ walk \in WalkOrders(fs)
    /\ root = "directory"
    /\ pc = "idle"
    /\ todo = <<>>
    /\ knowledge_graph = EmptyGraph
    /\ code_patterns = <<>>
    /\ best_practices = <<>>
    /\ violations = <<>>
    /\ metrics = <<>>
    /\ clock = 0
    /\ runs = 0
    /\ reports = <<>>
    /\ function_names = <<>>
    /\ duplicated_lines = 0

\* analyze_codebase() is called: map_dependencies starts its walk
AnalyzeCodebase ==
    /\ pc \in {"idle", "reported"}
    /\ runs < MaxRuns
    /\ runs' = runs + 1
    /\ todo' = ScannedFiles(walk, ProjectPath)
    /\ pc' = "map_dependencies"
    /\ UNCHANGED <<function_names, duplicated_lines, fs, walk, root, knowledge_graph, code_patterns, best_practices,
                   violations, metrics, clock, reports>>

\* map_dependencies: the next file of the walk
AnalyzeFileDependencies ==
    /\ pc = "map_dependencies"
    /\ todo # <<>>
    /\ knowledge_graph' = analyze_file_dependencies(knowledge_graph, fs, ProjectPath, Head(todo))
    /\ todo' = Tail(todo)
    /\ UNCHANGED <<function_names, duplicated_lines, fs, walk, root, pc, code_patterns, best_practices, violations, metrics,
                   clock, runs, reports>>

DetectPatterns ==
    /\ pc = "map_dependencies"
    /\ todo = <<>>
    /\ code_patterns' = detect_patterns(knowledge_graph, fs, ProjectPath)
    /\ pc' = "check_best_practices"
    /\ UNCHANGED <<function_names, duplicated_lines, fs, walk, root, todo, knowledge_graph, best_practices, violations, metrics,
                   clock, runs, reports>>

CheckBestPractices ==
    /\ pc = "check_best_practices"
    /\ best_practices' = check_best_practices(knowledge_graph, fs, ProjectPath)
    /\ pc' = "calculate_metrics"
    /\ UNCHANGED <<function_names, duplicated_lines, fs, walk, root, todo, knowledge_graph, code_patterns, violations, metrics,
                   clock, runs, reports>>

CalculateMetrics ==
    /\ pc = "calculate_metrics"
    /\ metrics' = calculate_metrics(knowledge_graph, fs, ProjectPath)
    /\ pc' = "detect_code_smells"
    /\ UNCHANGED <<function_names, duplicated_lines, fs, walk, root, todo, knowledge_graph, code_patterns, best_practices,
                   violations, clock, runs, reports>>

DetectCodeSmells ==
    /\ pc = "detect_code_smells"
    /\ violations' = violations \o detect_code_smells(knowledge_graph, fs, ProjectPath)
    /\ pc' = "analyzed"
    /\ UNCHANGED <<function_names, duplicated_lines, fs, walk, root, todo, knowledge_graph, code_patterns, best_practices,
                   metrics, clock, runs, reports>>

\* mutant: the graph is discarded once it is pickled
GenerateReport_discards_graph ==
    /\ pc = "analyzed"
    /\ reports' = Append(reports,
                     [report |-> generate_report(clock, ProjectPath, metrics, code_patterns,
                                                 best_practices, violations),
                      graph |-> knowledge_graph])
    /\ knowledge_graph' = EmptyGraph
    /\ clock' = clock + 1
    /\ pc' = "reported"
    /\ UNCHANGED <<function_names, duplicated_lines, fs, walk, root, todo, code_patterns, best_practices,
                   violations, metrics, runs>>

\* generate_report(): the report and the pickled graph are written to disk
GenerateReport ==
    /\ pc = "analyzed"
    /\ reports' = Append(reports,
                     [report |-> generate_report(clock, ProjectPath, metrics, code_patterns,
                                                 best_practices, violations),
                      graph |-> knowledge_graph])
    /\ clock' = clock + 1
    /\ pc' = "reported"
    /\ UNCHANGED <<function_names, duplicated_lines, fs, walk, root, todo, knowledge_graph, code_patterns, best_practices,
                   violations, metrics, runs>>

Next ==
    \/ AnalyzeCodebase
    \/ AnalyzeFileDependencies
    \/ DetectPatterns
    \/ CheckBestPractices
    \/ CalculateMetrics
    \/ DetectCodeSmells
    \/ GenerateReport

Spec == Init /\ [][Next]_vars

-----------------------------------------------------------------------------
(* Further projects: candidates of every resolution suffix, files of every  *)
(* layer, test files, directories the walk leaves out, and a root that is   *)
(* no readable directory.                                                   *)

Under(dirs, name) == ProjectPath \o dirs \o <<name>>

OrderServiceTs   == InProject("domain", <<"Order", "Service", ".ts">>)
ExpressTs        == InProject("domain", <<"express", ".ts">>)
DbIndexJs        == Under(<< <<"infrastructure">>, <<"db">> >>, <<"index", ".js">>)
DbIndexTs        == Under(<< <<"infrastructure">>, <<"db">> >>, <<"index", ".ts">>)
ServicesOrderJs  == Under(<< <<"domain">>, <<"service", "s">> >>, <<"Order", "Service", ".js">>)
OrderserviceJs   == InProject("domain", <<"order", "service", ".js">>)
UserSpecJs       == InProject("spec", <<"User", "Spec", ".js">>)
UserTestJs       == Under(<< <<"test", "s">> >>, <<"User", ".", "test", ".js">>)
AppTestJs        == Under(<< <<"test", "s">> >>, <<"App", ".", "test", ".js">>)
DbTestJs         == Under(<< <<"test", "s">> >>, <<"db", ".", "test", ".js">>)
UserDirOrderTestJs == Under(<< <<"test", "s">>, <<"User">> >>, <<"Order", ".", "test", ".js">>)
DomainUserTestJs == Under(<< <<"test", "s">>, <<"domain">> >>, <<"User", ".", "test", ".js">>)
NodeModulesJs    == Under(<< <<"node_modules">>, <<"express">> >>, <<"index", ".js">>)
GitHookJs        == Under(<< <<".git">>, <<"hooks">> >>, <<"pre", ".js">>)
GithubScriptJs   == Under(<< <<".git", "hub">>, <<"scripts">> >>, <<"build", ".js">>)

DomainMapperJs   == Under(<< <<"infrastructure">>, <<"domain">> >>, <<"mapper", ".js">>)
BootstrapJs      == Under(<< <<"application">>, <<"infrastructure">> >>, <<"bootstrap", ".js">>)

ToSiblingOrderService == << <<".">>, <<"Order", "Service">> >>
ToInfraDomainMapper   == << <<"..">>, <<"infrastructure">>, <<"domain">>, <<"mapper">> >>
ToUpperDomainUser     == << <<"..">>, <<"..">>, <<"domain">>, <<"User">> >>

ControlLines(n) == [i \in 1..n |-> Control("if")]

\* projects for import resolution
ImportsUniverse == <<UserJs, OrderServiceTs, ExpressTs, DbJs, DbTs, DbIndexJs, DbIndexTs, AppJs>>

ImportsMenu ==
    [f \in Range(ImportsUniverse) |->
        CASE f = UserJs ->
               { File(<<Require(ToMissing), ImportFrom(ToExpress), Require(ToInfraDb),
                        ImportFrom(ToSiblingOrderService)>>, 1),
                 File(<<ImportFrom(ToInfraDb)>>, 1) }
          [] f = AppJs ->
               { File(<<Require(ToInfraDb), Require(ToMissing)>>, 1) }
          [] OTHER -> { File(<<>>, 1) }]

\* projects for the layout of the tree
LayoutUniverse == <<UserJs, ServicesOrderJs, AppJs, UserSpecJs, DomainUserTestJs,
                    NodeModulesJs, GitHookJs, GithubScriptJs>>

LayoutMenu == [f \in Range(LayoutUniverse) |-> { File(<<Text("class")>>, 1) }]

\* projects for tests, complexity and names
TestsUniverse == <<UserJs, OrderserviceJs, UserRepositoryJs, UserTestJs, AppTestJs,
                   DbTestJs, UserDirOrderTestJs>>

TestsMenu ==
    [f \in Range(TestsUniverse) |->
        CASE f = UserJs ->
               { File(<<Text("class")>>, 1),
                 File(ControlLines(14), 1),
                 File(ControlLines(15), 1) }
          [] OTHER -> { File(<<Text("class")>>, 1) }]

\* projects with directories named after two layers
LayersUniverse == <<UserJs, DomainMapperJs, BootstrapJs, DbJs>>

LayersMenu ==
    [f \in Range(LayersUniverse) |->
        CASE f = UserJs ->
               { File(<<ImportFrom(ToInfraDomainMapper), Require(ToInfraDb)>>, 1),
                 File(<<Text("class")>>, 1) }
          [] f = BootstrapJs ->
               { File(<<Require(ToUpperDomainUser)>>, 1) }
          [] OTHER -> { File(<<Text("class")>>, 1) }]

\* every file system that holds some of the files of U, each with a content
\* of its menu
ProjectsOf(U, menu) ==
    LET P[i \in 0..Len(U)] ==
            IF i = 0 THEN {<<>>}
            ELSE P[i - 1] \cup {(U[i] :> c) @@ p : c \in menu[U[i]], p \in P[i - 1]}
    IN P[Len(U)]

WalkOrdersOf(U, files) ==
    LET present == SelectSeqBy(U, DOMAIN files)
    IN {present, Reverse(present)}

\* os.walk(top) with no onerror: a top that cannot be listed yields nothing
Listings(U, files, r) == IF r = "directory" THEN WalkOrdersOf(U, files) ELSE {<<>>}

DiskCases(U, menu, roots) ==
    UNION { UNION { {[fs |-> p, walk |-> w, root |-> r] : w \in Listings(U, p, r)}
                    : p \in IF r = "missing" THEN {<<>>} ELSE ProjectsOf(U, menu) }
            : r \in roots }

ScanCases ==
    DiskCases(ImportsUniverse, ImportsMenu, {"directory"})
      \cup DiskCases(LayoutUniverse, LayoutMenu, {"directory", "missing", "unreadable"})
      \cup DiskCases(TestsUniverse, TestsMenu, {"directory"})
      \cup DiskCases(LayersUniverse, LayersMenu, {"directory"})

InitScan ==
    /\ \E c \in ScanCases : fs = c.fs /\ walk = c.walk /\ root = c.root
    /\ pc = "idle"
    /\ todo = <<>>
    /\ knowledge_graph = EmptyGraph
    /\ code_patterns = <<>>
    /\ best_practices = <<>>
    /\ violations = <<>>
    /\ metrics = <<>>
    /\ clock = 0
    /\ runs = 0
    /\ reports = <<>>
    /\ function_names = <<>>
    /\ duplicated_lines = 0

\* main() is started again: HexagonalExpertSystem() makes a fresh object
NewAnalyzer ==
    /\ pc = "reported"
    /\ Len(reports) < MaxRuns
    /\ knowledge_graph' = EmptyGraph
    /\ code_patterns' = <<>>
    /\ best_practices' = <<>>
    /\ violations' = <<>>
    /\ metrics' = <<>>
    /\ runs' = 0
    /\ pc' = "idle"
    /\ UNCHANGED <<function_names, duplicated_lines, fs, walk, root, todo, clock, reports>>

NextScan ==
    \/ Next
    \/ NewAnalyzer

SpecScan == InitScan /\ [][NextScan]_vars

-----------------------------------------------------------------------------
(* CodeMetricsCalculator: the duplication estimate of                      *)
(* calculate_project_metrics.  A function name is a sequence of atoms, a   *)
(* stem followed by the suffixes it carries.                                *)

\* the endings matched by (_test|_v\d+|_\d+)$
StrippedSuffixes == {"_test", "_v2", "_7"}

\* re.sub(r'(_test|_v\d+|_\d+)$', '', name.lower())
NormalizedName(name) ==
    LET lowered == LowerSeg(name)
    IN IF lowered # <<>> /\ lowered[Len(lowered)] \in StrippedSuffixes
       THEN SubSeq(lowered, 1, Len(lowered) - 1)
       ELSE lowered

\* lines counted for each function taken as a duplicate
LinesPerDuplicate == 10

\* name_counts: normalised name -> number of names that normalise to it
NameCounts(names) ==
    [g \in {NormalizedName(names[i]) : i \in DOMAIN names} |->
        Cardinality({i \in DOMAIN names : NormalizedName(names[i]) = g})]

\* mutant: the names are grouped as they are written, lower-cased only
_estimate_duplication_no_strip(names) ==
    IF names = <<>> THEN 0
    ELSE LET name_counts ==
                 [g \in {LowerSeg(names[i]) : i \in DOMAIN names} |->
                     Cardinality({i \in DOMAIN names : LowerSeg(names[i]) = g})]
             repeated == {g \in DOMAIN name_counts : name_counts[g] > 1}
         IN SumOver([g \in repeated |-> name_counts[g] - 1], repeated) * LinesPerDuplicate

\* _estimate_duplication(function_names)
_estimate_duplication(names) ==
    IF names = <<>> THEN 0
    ELSE LET name_counts == NameCounts(names)
             repeated == {g \in DOMAIN name_counts : name_counts[g] > 1}
             duplicated == SumOver([g \in repeated |-> name_counts[g] - 1], repeated)
         IN duplicated * LinesPerDuplicate

\* the function names the measured files declare
FunctionNames ==
    {<<"save">>, <<"Save">>, <<"load">>, <<"save", "_test">>, <<"save", "_v2">>,
     <<"save", "_7">>, <<"save", "_v">>, <<"save", "_v2", "_test">>,
     <<"load", "_test">>}

\* Longest list of function names collected
MaxNames == 3

NameLists == UNION {[1..n -> FunctionNames] : n \in 0..MaxNames}

InitDuplication ==
    /\ function_names \in NameLists
    /\ duplicated_lines = 0
    /\ fs = <<>>
    /\ walk = <<>>
    /\ root = "directory"
    /\ pc = "calculate_project_metrics"
    /\ todo = <<>>
    /\ knowledge_graph = EmptyGraph
    /\ code_patterns = <<>>
    /\ best_practices = <<>>
    /\ violations = <<>>
    /\ metrics = <<>>
    /\ clock = 0
    /\ runs = 0
    /\ reports = <<>>

\* metrics['duplicated_lines'] = self._estimate_duplication(all_functions)
EstimateDuplication ==
    /\ pc = "calculate_project_metrics"
    /\ duplicated_lines' = _estimate_duplication(function_names)
    /\ pc' = "measured"
    /\ UNCHANGED <<function_names, fs, walk, root, todo, knowledge_graph, code_patterns,
                   best_practices, violations, metrics, clock, runs, reports>>

NextDuplication == EstimateDuplication

SpecDuplication == InitDuplication /\ [][NextDuplication]_vars

-----------------------------------------------------------------------------
(* Vocabulary of the properties *)

\* the report of the run that has just ended
LastReport == reports[Len(reports)].report

\* the edge set of a graph, read off its adjacency
EdgeSet(G) == {e \in Range(G.nodes) \X Range(G.nodes) : e[2] \in Range(G.adj[e[1]])}

NodeOf(file_path) == relpath(file_path, ProjectPath)

-----------------------------------------------------------------------------
(* C1 *)

\* C1: layer-isolation soundness.  When a run has ended, for every edge (s,t)
\* of the graph whose source is in the Domain layer (its path contains
\* 'domain') and whose target is in the Infrastructure layer (its path
\* contains 'infrastructure' and not 'domain'), the reported layer_isolation
\* list holds a violation of severity critical with file s and dependency t.
C1_LayerIsolationSound ==
    pc = "reported" =>
        LET out == LastReport.best_practices.layer_isolation IN
        \A e \in EdgeSet(knowledge_graph) :
            ( /\ KwIn(<<"domain">>, e[1])
              /\ KwIn(<<"infrastructure">>, e[2])
              /\ ~KwIn(<<"domain">>, e[2]) )
            => \E i \in DOMAIN out :
                  /\ out[i].severity = "critical"
                  /\ out[i].file = e[1]
                  /\ out[i].dependency = e[2]

\* a run has ended on a graph with two Domain -> Infrastructure edges
C1_Witness ==
    /\ pc = "reported"
    /\ Cardinality({e \in EdgeSet(knowledge_graph) :
                       KwIn(<<"domain">>, e[1]) /\ KwIn(<<"infrastructure">>, e[2])}) >= 2

-----------------------------------------------------------------------------
(* C2 *)

-----------------------------------------------------------------------------
(* C3 *)

\* Scenario A: domain/User.js without imports, infrastructure/UserRepository.js
\* importing ../domain/User, infrastructure/UserController.js importing
\* ./UserRepository
ScenarioA ==
    (UserJs :> File(<<Text("class"), Method("constructor"), Text("this")>>, 1))
    @@ (UserRepositoryJs :> File(<<ImportFrom(ToDomainUser), Text("class"), Method("save")>>, 1))
    @@ (UserControllerJs :> File(<<ImportFrom(ToSiblingRepository)>>, 1))

\* every entry of severity critical among the rule outputs of a report
CriticalCount(r) ==
    LET bp == r.best_practices IN
      Cardinality({i \in DOMAIN bp.single_responsibility :
                      bp.single_responsibility[i].severity = "critical"})
    + Cardinality({i \in DOMAIN bp.dependency_direction :
                      bp.dependency_direction[i].severity = "critical"})
    + Cardinality({i \in DOMAIN bp.layer_isolation :
                      bp.layer_isolation[i].severity = "critical"})
    + Cardinality({i \in DOMAIN bp.naming_conventions :
                      bp.naming_conventions[i].severity = "critical"})

\* C3: on the project of Scenario A a run yields a graph with exactly three
\* nodes (the three files) and exactly two edges (UserRepository -> User,
\* UserController -> UserRepository) and a report with no critical violation.
C3_ScenarioA ==
    (fs = ScenarioA /\ pc = "reported") =>
        /\ Len(knowledge_graph.nodes) = 3
        /\ Range(knowledge_graph.nodes)
              = {NodeOf(UserJs), NodeOf(UserRepositoryJs), NodeOf(UserControllerJs)}
        /\ Len(edges(knowledge_graph)) = 2
        /\ EdgeSet(knowledge_graph)
              = {<<NodeOf(UserRepositoryJs), NodeOf(UserJs)>>,
                 <<NodeOf(UserControllerJs), NodeOf(UserRepositoryJs)>>}
        /\ reports[Len(reports)].graph = knowledge_graph
        /\ CriticalCount(LastReport) = 0

\* a run on Scenario A has ended
C3_Witness == fs = ScenarioA /\ pc = "reported" /\ Len(edges(knowledge_graph)) = 2

-----------------------------------------------------------------------------
(* C4 *)

\* domain/OrderService.js is readable and holds the line require('../infrastructure/db')
HasRequireInfraDb ==
    /\ OrderServiceJs \in DOMAIN fs
    /\ fs[OrderServiceJs].readable
    /\ \E i \in DOMAIN fs[OrderServiceJs].lines :
          fs[OrderServiceJs].lines[i] = Require(ToInfraDb)

\* the infrastructure db file that the import denotes
DbNode == IF DbJs \in DOMAIN fs THEN NodeOf(DbJs) ELSE NodeOf(DbTs)

\* C4: Scenario B.  When domain/OrderService.js contains
\* require('../infrastructure/db') and the db file exists, the report holds
\* exactly one layer-isolation violation for OrderService.js; it is critical
\* and references the edge from OrderService.js to the db file; and when the
\* project holds nothing but these files it is the only critical violation.
C4_ScenarioB ==
    (pc = "reported" /\ HasRequireInfraDb /\ (DbJs \in DOMAIN fs \/ DbTs \in DOMAIN fs)) =>
        LET out == LastReport.best_practices.layer_isolation
            mine == {i \in DOMAIN out : out[i].file = NodeOf(OrderServiceJs)}
        IN /\ Cardinality(mine) = 1
           /\ \A i \in mine : /\ out[i].severity = "critical"
                              /\ out[i].dependency = DbNode
           /\ <<NodeOf(OrderServiceJs), DbNode>> \in EdgeSet(knowledge_graph)
           /\ (DOMAIN fs \subseteq {OrderServiceJs, DbJs, DbTs}
                  => CriticalCount(LastReport) = 1)

\* a run has ended on the project made of OrderService.js, requiring the db
\* file twice, and db.js
C4_Witness ==
    /\ pc = "reported"
    /\ HasRequireInfraDb
    /\ DOMAIN fs = {OrderServiceJs, DbJs}
    /\ Cardinality({i \in DOMAIN fs[OrderServiceJs].lines :
                       fs[OrderServiceJs].lines[i] = Require(ToInfraDb)}) = 2

-----------------------------------------------------------------------------
(* C5 *)

\* C5: single-responsibility rule.  The reported single_responsibility list
\* holds exactly one entry, of severity medium and carrying the node's id, for
\* every node whose path (lower case) contains 'service' and whose file, read
\* back, declares more than 7 methods; it holds none for a service node with
\* 7 methods or fewer, none for a node that is no service, and nothing else.
\* (A node whose file cannot be read has no declared symbols.)
C5_SingleResponsibility ==
    pc = "reported" =>
        LET out == LastReport.best_practices.single_responsibility
            Declared(n) == IF CanRead(fs, ProjectPath, n)
                           THEN Len(MethodsOfLines(ContentOf(fs, ProjectPath, n).lines))
                           ELSE 0
        IN /\ \A n \in Range(knowledge_graph.nodes) :
                 Cardinality({i \in DOMAIN out : out[i].file = n})
                 = IF KwIn(<<"service">>, LowerPath(n)) /\ Declared(n) > 7 THEN 1 ELSE 0
           /\ \A i \in DOMAIN out :
                 /\ out[i].severity = "medium"
                 /\ out[i].file \in Range(knowledge_graph.nodes)

\* a run has ended on a service file that declares 9 methods, and was reported
C5_Witness ==
    /\ pc = "reported"
    /\ OrderServiceJs \in DOMAIN fs
    /\ fs[OrderServiceJs].readable
    /\ Len(MethodsOfLines(fs[OrderServiceJs].lines)) = 9
    /\ Len(LastReport.best_practices.single_responsibility) = 1

-----------------------------------------------------------------------------
(* C6 *)

\* C6: coupling identity.  The reported coupling_metrics has one entry per
\* node n, with afferent = in-degree(n), efferent = out-degree(n), and an
\* instability a / b with b > 0 and 0 <= a <= b that equals
\* efferent / (afferent + efferent) when that sum is positive and 0 when
\* afferent = efferent = 0.
C6_CouplingIdentity ==
    pc = "reported" =>
        LET cm == LastReport.metrics.coupling_metrics
            E == EdgeSet(knowledge_graph)
        IN /\ DOMAIN cm = Range(knowledge_graph.nodes)
           /\ \A n \in DOMAIN cm :
                LET indeg == Cardinality({e \in E : e[2] = n})
                    outdeg == Cardinality({e \in E : e[1] = n})
                    a == cm[n].instability[1]
                    b == cm[n].instability[2]
                IN /\ cm[n].afferent = indeg
                   /\ cm[n].efferent = outdeg
                   /\ b > 0 /\ 0 <= a /\ a <= b
                   /\ (indeg + outdeg > 0 => a * (indeg + outdeg) = outdeg * b)
                   /\ (indeg + outdeg = 0 => a = 0)

\* a run has ended on a graph with an isolated node, a node with in-degree 2
\* or more, and a node with unequal in- and out-degree, both positive
C6_Witness ==
    /\ pc = "reported"
    /\ \E n1, n2, n3 \in Range(knowledge_graph.nodes) :
          /\ in_degree(knowledge_graph, n1) + out_degree(knowledge_graph, n1) = 0
          /\ in_degree(knowledge_graph, n2) >= 2
          /\ in_degree(knowledge_graph, n3) > 0
          /\ out_degree(knowledge_graph, n3) > 0
          /\ in_degree(knowledge_graph, n3) # out_degree(knowledge_graph, n3)

-----------------------------------------------------------------------------
(* C7 *)

\* a report without the time it was written at
Undated(r) == [r EXCEPT !.timestamp = 0]

\* C7: report lifecycle.  A second analyze_codebase(); generate_report() on
\* the same object over unchanged files yields the same graph, the same
\* violations list and the same report content (the time stamp aside) as the
\* first: nothing of the first run is carried over.
C7_SecondRunSame ==
    Len(reports) >= 2 =>
        /\ reports[2].graph = reports[1].graph
        /\ reports[2].report.violations = reports[1].report.violations
        /\ Undated(reports[2].report) = Undated(reports[1].report)

-----------------------------------------------------------------------------
(* C8 *)

\* the entries of the four conformance rules in a report
RuleViolations(r) ==
    Range(r.best_practices.single_responsibility)
    \cup Range(r.best_practices.dependency_direction)
    \cup Range(r.best_practices.layer_isolation)
    \cup Range(r.best_practices.naming_conventions)

\* C8: the report contains all violations.  Every violation a conformance
\* rule emitted during analyze_codebase is an element of the violations list
\* of the report generate_report returns.
C8_ReportHoldsRuleViolations ==
    pc = "reported" =>
        \A v \in RuleViolations(LastReport) :
            \E i \in DOMAIN LastReport.violations : LastReport.violations[i] = v

-----------------------------------------------------------------------------
(* C9 *)

\* C9: graph well-formedness, in every state (so after any sequence of
\* analyze_file_dependencies calls): node ids are unique and are canonical
\* relative paths, each node has its adjacency, every (source, target) edge is
\* held once, and both endpoints of every edge are nodes.
C9_GraphWellFormed ==
    LET G == knowledge_graph IN
    /\ \A i, j \in DOMAIN G.nodes : G.nodes[i] = G.nodes[j] => i = j
    /\ \A n \in Range(G.nodes) : relpath(NodeFile(ProjectPath, n), ProjectPath) = n
    /\ DOMAIN G.adj = Range(G.nodes)
    /\ DOMAIN G.type = Range(G.nodes)
    /\ \A u \in Range(G.nodes) :
          /\ \A i, j \in DOMAIN G.adj[u] : G.adj[u][i] = G.adj[u][j] => i = j
          /\ Range(G.adj[u]) \subseteq Range(G.nodes)
    /\ Len(edges(G)) = Cardinality(EdgeSet(G))

\* OrderService.js, which imports the db file twice, has been analysed, and
\* its target is a node that no analysed file has created
C9_Witness ==
    /\ pc = "map_dependencies"
    /\ HasRequireInfraDb
    /\ Cardinality({i \in DOMAIN fs[OrderServiceJs].lines :
                       fs[OrderServiceJs].lines[i] = Require(ToInfraDb)}) = 2
    /\ NodeOf(DbTs) \in Range(knowledge_graph.nodes)
    /\ <<NodeOf(OrderServiceJs), NodeOf(DbTs)>> \in EdgeSet(knowledge_graph)
    /\ knowledge_graph.type[NodeOf(DbTs)] = "none"

-----------------------------------------------------------------------------
(* C10 *)

\* map_dependencies has finished and the run's report is not yet written
GraphBuilt ==
    \/ pc = "map_dependencies" /\ todo = <<>>
    \/ pc \in {"check_best_practices", "calculate_metrics", "detect_code_smells", "analyzed"}

\* C10: graph freeze.  Once map_dependencies has finished, every step of the
\* run (detect_patterns, check_best_practices, calculate_metrics,
\* detect_code_smells, generate_report) leaves the graph as it is.
C10_GraphFrozen == [][GraphBuilt => knowledge_graph' = knowledge_graph]_vars

\* a report has been written for a graph with three edges or more, the graph
\* being the one map_dependencies built
C10_Witness ==
    /\ pc = "reported"
    /\ runs = 1
    /\ Len(edges(knowledge_graph)) >= 3
    /\ reports[1].graph = knowledge_graph

-----------------------------------------------------------------------------
(* C11 *)

\* what './db' of a file of infrastructure, or '../infrastructure/db' of a
\* file one directory below the root, may stand for, in the order tried
DbCandidates == <<DbJs, DbTs, DbIndexJs, DbIndexTs>>

FirstExisting(files, cands) ==
    IF \E k \in DOMAIN cands : cands[k] \in DOMAIN files
    THEN cands[CHOOSE k \in DOMAIN cands :
                   /\ cands[k] \in DOMAIN files
                   /\ \A j \in 1..(k - 1) : cands[j] \notin DOMAIN files]
    ELSE <<>>

\* the files whose text imports '../infrastructure/db'
ImportersOfDb ==
    {f \in DOMAIN fs : fs[f].readable /\ ToInfraDb \in Range(extract_imports(fs[f]))}

\* C11: first-match import resolution.  For the relative import
\* '../infrastructure/db', resolve_import_path returns db.js if it exists,
\* else db.ts, else db/index.js, else db/index.ts, whatever later candidates
\* exist as well, and None iff none of the four exists; once the graph is
\* built the importing file has an edge to that first candidate and to no
\* other candidate.
C11_FirstMatch ==
    \A f \in ImportersOfDb :
        LET first == FirstExisting(fs, DbCandidates) IN
          /\ resolve_import_path(fs, f, ToInfraDb) = first
          /\ (first = <<>>) <=> (\A k \in DOMAIN DbCandidates : DbCandidates[k] \notin DOMAIN fs)
          /\ (GraphBuilt /\ f \in Range(ScannedFiles(walk, ProjectPath))) =>
                {k \in DOMAIN DbCandidates :
                    /\ has_node(knowledge_graph, NodeOf(f))
                    /\ <<NodeOf(f), NodeOf(DbCandidates[k])>> \in EdgeSet(knowledge_graph)}
                = {k \in DOMAIN DbCandidates : DbCandidates[k] = first}

\* db.js is missing, db.ts and both index files exist, and the built graph
\* has the edge from domain/User.js to infrastructure/db.ts
C11_Witness ==
    /\ GraphBuilt
    /\ UserJs \in ImportersOfDb
    /\ DbJs \notin DOMAIN fs
    /\ {DbTs, DbIndexJs, DbIndexTs} \subseteq DOMAIN fs
    /\ <<NodeOf(UserJs), NodeOf(DbTs)>> \in EdgeSet(knowledge_graph)

-----------------------------------------------------------------------------
(* C12 *)

\* the relative imports written in the file of node n, resolved as the code
\* resolves them and named as the graph names its nodes
RelativeTargets(n) ==
    IF ~CanRead(fs, ProjectPath, n) THEN {}
    ELSE LET from_file == NodeFile(ProjectPath, n)
             imports == extract_imports(fs[from_file])
         IN {NodeOf(resolve_import_path(fs, from_file, imports[i])) :
                i \in {j \in DOMAIN imports :
                         /\ StartsWithDot(imports[j])
                         /\ resolve_import_path(fs, from_file, imports[j]) # <<>>}}

ScannedNodes == {NodeOf(f) : f \in Range(ScannedFiles(walk, ProjectPath))}

\* C12: an import target that does not start with '.' never becomes a node
\* or an edge.  In every state each edge of the graph leaves a node for one of
\* the relative imports of its file, and each node is a scanned file or the
\* target of such an edge; the package 'express' a file imports gives no node
\* and no edge, also when a file named express lies next to the importing file.
C12_NoExternalInGraph ==
    /\ \A e \in EdgeSet(knowledge_graph) : e[2] \in RelativeTargets(e[1])
    /\ \A n \in Range(knowledge_graph.nodes) :
          \/ n \in ScannedNodes
          \/ \E e \in EdgeSet(knowledge_graph) : e[2] = n
    /\ ~\E s \in Range(knowledge_graph.nodes) :
          /\ ~\E imp \in Range(extract_imports(ContentOf(fs, ProjectPath, s))) :
                 imp = << <<".">>, <<"express">> >>
          /\ <<s, NodeOf(ExpressTs)>> \in EdgeSet(knowledge_graph)

\* domain/User.js imports 'express', domain/express.ts exists, the graph is
\* built with the edges of the relative imports of domain/User.js
C12_Witness ==
    /\ GraphBuilt
    /\ UserJs \in DOMAIN fs
    /\ ToExpress \in Range(extract_imports(fs[UserJs]))
    /\ ExpressTs \in DOMAIN fs
    /\ has_node(knowledge_graph, NodeOf(UserJs))
    /\ out_degree(knowledge_graph, NodeOf(UserJs)) >= 1
    /\ ~has_node(knowledge_graph, NodeOf(ExpressTs))

-----------------------------------------------------------------------------
(* C13 *)

\* the scanned, readable files whose text imports './missing', a relative
\* target none of whose candidates exists
ImportersOfMissing ==
    {f \in Range(ScannedFiles(walk, ProjectPath)) :
        fs[f].readable /\ ToMissing \in Range(extract_imports(fs[f]))}

\* the places of the analyzer and of its report where a fact about an import
\* of source could be kept: a report key, an entry of the violations list, a
\* node or an edge of the graph for the target
RecordsUnresolved(source, rawTarget) ==
    LET dangling == relpath(normpath(join(dirname(NodeFile(ProjectPath, source)), rawTarget)),
                            ProjectPath)
    IN \/ "unresolved_imports" \in DOMAIN LastReport
       \/ \E i \in DOMAIN LastReport.violations :
             /\ LastReport.violations[i].file = source
             /\ \E j \in DOMAIN LastReport.violations[i].smells :
                   LastReport.violations[i].smells[j].type = "unresolved_import"
       \/ has_node(knowledge_graph, dangling)

\* what C13 says besides the record: no edge for the target, the other
\* imports of the file and the other files are processed all the same
UnresolvedDoesNotAbort ==
    \A f \in ImportersOfMissing :
        /\ RelativeTargets(NodeOf(f)) \subseteq Range(successors(knowledge_graph, NodeOf(f)))
        /\ \A t \in Range(successors(knowledge_graph, NodeOf(f))) : NodeFile(ProjectPath, t) \in DOMAIN fs
        /\ \A g \in Range(ScannedFiles(walk, ProjectPath)) :
               fs[g].readable => has_node(knowledge_graph, NodeOf(g))

\* C13: when a run has ended, every unresolvable relative import of a scanned
\* file is recorded as UnresolvedImport(source, rawTarget), has added no edge,
\* and the remaining imports of the file and the remaining files have been
\* processed.
C13_UnresolvedRecorded ==
    pc = "reported" =>
        /\ UnresolvedDoesNotAbort
        /\ \A f \in ImportersOfMissing : RecordsUnresolved(NodeOf(f), ToMissing)

\* the part of C13 the code keeps: no edge, no abort
NoEdgeNoAbort == pc = "reported" => UnresolvedDoesNotAbort

-----------------------------------------------------------------------------
(* C14 *)

\* the layer a value returned by classify_file or detect_layer stands for
LayerOfType(t) ==
    CASE t \in {"domain", "domain-entity", "domain-service", "domain-port"} -> "Domain"
      [] t \in {"infrastructure", "infrastructure-web", "infrastructure-database",
                "infrastructure-auth", "infrastructure-email"} -> "Infrastructure"
      [] t = "application" -> "Application"
      [] t = "test" -> "Test"
      [] t = "other" -> "Other"
      [] OTHER -> "unmapped"

\* the layer C14 gives a path
LayerByPriority(path) ==
    IF KwIn(<<"domain">>, path) THEN "Domain"
    ELSE IF KwIn(<<"infrastructure">>, path) THEN "Infrastructure"
    ELSE IF KwIn(<<"application">>, path) THEN "Application"
    ELSE IF KwIn(<<"test">>, path) \/ KwIn(<<"spec">>, path) THEN "Test"
    ELSE "Other"

\* C14: layer classification is total and follows the priority Domain,
\* Infrastructure, Application, Test ('test' or 'spec'), Other.  Once the
\* graph is built, the type classify_file gave each scanned file, and the
\* layer detect_layer gives each file the walk lists, stand for the layer the
\* priority order gives the file's path.
C14_LayerPriority ==
    GraphBuilt =>
        /\ \A f \in Range(ScannedFiles(walk, ProjectPath)) :
              has_node(knowledge_graph, NodeOf(f)) =>
                  LayerOfType(knowledge_graph.type[NodeOf(f)]) = LayerByPriority(f)
        /\ \A f \in Range(walk) : LayerOfType(detect_layer(f)) = LayerByPriority(f)

\* totality alone: the value returned is always one that stands for a layer
LayerTotal ==
    /\ \A n \in Range(knowledge_graph.nodes) :
          knowledge_graph.type[n] # "none" => LayerOfType(knowledge_graph.type[n]) # "unmapped"
    /\ \A f \in DOMAIN fs : LayerOfType(detect_layer(f)) # "unmapped"

-----------------------------------------------------------------------------
(* C15 *)

\* the graph the last report was made from
LastGraph == reports[Len(reports)].graph

\* a test node, as check_test_coverage takes it
IsTestNode(n) == KwIn(<<"test">>, LowerPath(n))

\* the base filename of a node without its extension
StrippedBaseName(n) ==
    LET name == n[Len(n)] IN
      IF name # <<>> /\ name[Len(name)] \in {".js", ".ts"}
      THEN SubSeq(name, 1, Len(name) - 1)
      ELSE name

\* C15: test-coverage mapping.  When a run has ended, test_coverage has an
\* entry for every node that is no test node, and the entry of a production
\* file has has_test exactly when some test node's base filename without its
\* extension contains the production file's base name.
C15_TestCoverage ==
    pc = "reported" =>
        LET coverage_info == LastReport.best_practices.test_coverage
            nodes == Range(LastGraph.nodes)
        IN /\ DOMAIN coverage_info = {n \in nodes : ~IsTestNode(n)}
           /\ \A prod_file \in DOMAIN coverage_info :
                 coverage_info[prod_file].has_test
                 <=> \E t \in nodes :
                        /\ IsTestNode(t)
                        /\ KwInSeg(StrippedBaseName(prod_file), StrippedBaseName(t))

\* the two halves of C15, each alone
CoverageEntries ==
    pc = "reported" =>
        DOMAIN LastReport.best_practices.test_coverage
            = {n \in Range(LastGraph.nodes) : ~IsTestNode(n)}
CoverageByBaseName ==
    pc = "reported" =>
        \A prod_file \in DOMAIN LastReport.best_practices.test_coverage :
            LastReport.best_practices.test_coverage[prod_file].has_test
            <=> \E t \in Range(LastGraph.nodes) :
                   /\ IsTestNode(t)
                   /\ KwInSeg(StrippedBaseName(prod_file), StrippedBaseName(t))

-----------------------------------------------------------------------------
(* C16 *)

\* C16: recommendation thresholds.  When a run has ended, the report's
\* recommendations hold a high-priority testing entry exactly when
\* test_files / total_files < 0.8 (the ratio counting as 0 when no file was
\* counted, as the recommendation's own message prints it), a medium-priority
\* complexity entry exactly when the average complexity is > 15, nothing
\* else, and the high entry before the medium one.
C16_Recommendations ==
    pc = "reported" =>
        LET m == LastReport.metrics
            recs == LastReport.recommendations
            low_ratio == m.total_files = 0 \/ m.test_files * 10 < 8 * m.total_files
            complex == m.cyclomatic_complexity[1] > 15 * m.cyclomatic_complexity[2]
            high == {i \in DOMAIN recs : recs[i].type = "testing" /\ recs[i].priority = "high"}
            medium == {i \in DOMAIN recs :
                          recs[i].type = "complexity" /\ recs[i].priority = "medium"}
        IN /\ (high # {}) <=> low_ratio
           /\ (medium # {}) <=> complex
           /\ Cardinality(high) <= 1 /\ Cardinality(medium) <= 1
           /\ high \cup medium = DOMAIN recs
           /\ \A i \in high, j \in medium : i < j

\* a run has ended with both recommendations: no test file, average
\* complexity 16
C16_Witness ==
    /\ pc = "reported"
    /\ LastReport.metrics.total_files > 0
    /\ Len(LastReport.recommendations) = 2
    /\ LastReport.recommendations[1].priority = "high"
    /\ LastReport.recommendations[2].priority = "medium"

\* runs ending on the thresholds themselves: ratio 4/5 and average 15
AtTestRatioThreshold ==
    /\ pc = "reported"
    /\ LastReport.metrics.total_files = 5 /\ LastReport.metrics.test_files = 4
AtComplexityThreshold ==
    /\ pc = "reported"
    /\ LastReport.metrics.cyclomatic_complexity = <<15, 1>>

-----------------------------------------------------------------------------
(* C17 *)

\* the role check_naming_conventions takes a node to have, from its filename
NamingRole(n) ==
    IF KwIn(<<"service">>, LowerPath(basename(n))) THEN "Service"
    ELSE IF KwIn(<<"repository">>, LowerPath(basename(n))) THEN "Repository"
    ELSE "Unknown"

\* the extension of the node's source file
SourceExtension(n) == n[Len(n)][Len(n[Len(n)])]

\* the number of naming violations reported for node n
NamingViolationsOf(r, n) ==
    Cardinality({i \in DOMAIN r.best_practices.naming_conventions :
                    r.best_practices.naming_conventions[i].file = n})

-----------------------------------------------------------------------------
(* C18 *)

\* the last report is that of the first run of a fresh analyzer
FreshRunReported == pc = "reported" /\ runs = 1

\* C18: determinism.  The report of a fresh analyzer's analyze_codebase();
\* generate_report() over the unchanged files is identical to the report the
\* first analyzer wrote for them.
C18_Deterministic == FreshRunReported => LastReport = reports[1].report

\* the same with the timestamp set aside
SameButTimestamp == FreshRunReported => Undated(LastReport) = Undated(reports[1].report)

\* a second analyzer has reported
SecondAnalyzerReported == FreshRunReported /\ Len(reports) = 2

-----------------------------------------------------------------------------
(* C19 *)

\* some directory on the path of f below the root is named in the excluded set
UnderExcludedDir(f) ==
    \E i \in (Len(ProjectPath) + 1)..(Len(f) - 1) : f[i] \in ExcludedDirs

\* analyze_file_dependencies has been run on f
Analysed(f) ==
    /\ has_node(knowledge_graph, NodeOf(f))
    /\ knowledge_graph.type[NodeOf(f)] # "none"

\* C19: excluded-directory pruning.  Once map_dependencies has walked a
\* readable root, a '.js' file of the project has been analysed exactly when
\* no directory on its path below the root is named node_modules or .git
\* (the same for the files calculate_project_metrics measures), and the walk
\* has listed no file below such a directory.
C19_ExcludedPruning ==
    (GraphBuilt /\ root = "directory") =>
        /\ \A f \in DOMAIN fs :
              (EndsWith(f, <<".js">>) /\ fs[f].readable) =>
                  /\ Analysed(f) <=> ~UnderExcludedDir(f)
                  /\ f \in Range(MeasuredFiles(walk, ProjectPath)) <=> ~UnderExcludedDir(f)
        /\ \A f \in Range(walk) : ~UnderExcludedDir(f)

\* the halves of C19, each alone
AnalysedIffNotExcluded ==
    (GraphBuilt /\ root = "directory") =>
        \A f \in DOMAIN fs :
            (EndsWith(f, <<".js">>) /\ fs[f].readable) => (Analysed(f) <=> ~UnderExcludedDir(f))
ExcludedNeverAnalysed ==
    (GraphBuilt /\ root = "directory") =>
        \A f \in DOMAIN fs : UnderExcludedDir(f) => ~Analysed(f)
MeasuredIffNotExcluded ==
    \A f \in DOMAIN fs :
        (root = "directory" /\ EndsWith(f, <<".js">>)) =>
            (f \in Range(MeasuredFiles(walk, ProjectPath)) <=> ~UnderExcludedDir(f))
NoDescent == \A f \in Range(walk) : ~UnderExcludedDir(f)

-----------------------------------------------------------------------------
(* C20 *)

\* C20: scanning a root that does not exist or is not readable is fatal.
\* With such a root the run goes no further than map_dependencies and no
\* report is ever written.
C20_ScanError ==
    root # "directory" =>
        /\ pc \in {"idle", "map_dependencies"}
        /\ reports = <<>>

\* ProjectAnalyzer.analyze_project does not fail on such a root either
AnalyzeProjectFails == root # "directory" => analyze_project(root) = "raises"

\* what the code does: it reports on an empty graph
EmptyReportOnBadRoot ==
    (root # "directory" /\ pc = "reported") =>
        /\ LastGraph = EmptyGraph
        /\ LastReport.metrics.total_files = 0
        /\ LastReport.violations = <<>>

-----------------------------------------------------------------------------
(* C21 *)

\* the scanned files whose read fails
UnreadableScanned ==
    {f \in Range(ScannedFiles(walk, ProjectPath)) : ~fs[f].readable}

\* what C21 says besides the count: the call on an unreadable file gives it
\* no type and no outgoing edge, and every readable scanned file is analysed
UnreadableSkippedLocally ==
    /\ \A f \in UnreadableScanned :
          has_node(knowledge_graph, NodeOf(f)) =>
              /\ knowledge_graph.type[NodeOf(f)] = "none"
              /\ successors(knowledge_graph, NodeOf(f)) = <<>>
    /\ \A g \in Range(ScannedFiles(walk, ProjectPath)) :
          fs[g].readable =>
              /\ has_node(knowledge_graph, NodeOf(g))
              /\ knowledge_graph.type[NodeOf(g)] # "none"

\* C21: a single unreadable file is recovered locally.  When a run has ended
\* over a project with a file whose read fails, the file has been skipped
\* (its call added no node and no edge for it), every other file has been
\* analysed, and the report's skippedFiles counts the failed reads.
C21_SkippedFilesCounted ==
    (pc = "reported" /\ UnreadableScanned # {}) =>
        /\ UnreadableSkippedLocally
        /\ "skippedFiles" \in DOMAIN LastReport
        /\ LastReport["skippedFiles"] = Cardinality(UnreadableScanned)

\* the part of C21 the code keeps
SkippedLocally == pc = "reported" => UnreadableSkippedLocally

-----------------------------------------------------------------------------
(* C22 *)

BusinessKeywords == {"validate", "process", "calculate", "business", "rule"}

\* the text of node n holds a business-logic keyword
HasBusinessKeyword(n) ==
    /\ CanRead(fs, ProjectPath, n)
    /\ \E i \in DOMAIN ContentOf(fs, ProjectPath, n).lines :
          LineWords(ContentOf(fs, ProjectPath, n).lines[i]) \cap BusinessKeywords # {}

\* C22: service pattern rule.  When a run has ended, every entry of the
\* reported service_pattern is a node whose role is Service ('service' in its
\* path), whose layer is Domain ('domain' in its path) and whose content
\* contains one of validate, process, calculate, business, rule.
C22_ServicePattern ==
    pc = "reported" =>
        \A i \in DOMAIN LastReport.patterns.service_pattern :
            LET n == LastReport.patterns.service_pattern[i].file IN
              /\ KwIn(<<"service">>, LowerPath(n))
              /\ KwIn(<<"domain">>, n)
              /\ HasBusinessKeyword(n)

\* what the code does: role and layer decide the match, the keyword is only
\* reported as the flag has_business_logic
ServicePatternByRoleAndLayer ==
    pc = "reported" =>
        /\ {LastReport.patterns.service_pattern[i].file :
               i \in DOMAIN LastReport.patterns.service_pattern}
           = {n \in Range(LastGraph.nodes) :
                 /\ KwIn(<<"service">>, LowerPath(n))
                 /\ KwIn(<<"domain">>, n)
                 /\ CanRead(fs, ProjectPath, n)}
        /\ \A i \in DOMAIN LastReport.patterns.service_pattern :
              LastReport.patterns.service_pattern[i].has_business_logic
                  <=> HasBusinessKeyword(LastReport.patterns.service_pattern[i].file)

-----------------------------------------------------------------------------
(* C23 *)

\* the nodes whose file calculate_cyclomatic_complexity reads: '.js' nodes
\* that are no test nodes and whose file can be read
MeasuredNodes(G) ==
    {n \in Range(G.nodes) :
        ~IsTestNode(n) /\ EndsWith(n, <<".js">>) /\ CanRead(fs, ProjectPath, n)}

\* 1 + the number of decision points in the text of node n
DecisionPointsPlusOne(n) ==
    1 + Cardinality({i \in DOMAIN ContentOf(fs, ProjectPath, n).lines :
                        ContentOf(fs, ProjectPath, n).lines[i].kind = "control"})

\* C23: average complexity.  When a run has ended, the reported
\* cyclomatic_complexity is the sum of 1 + (decision points) over the measured
\* nodes, none of them a test node, divided by their number; it is at least 1
\* when a node was measured and 0 when none was.
C23_AverageComplexity ==
    pc = "reported" =>
        LET c == LastReport.metrics.cyclomatic_complexity
            measured == MeasuredNodes(LastGraph)
        IN IF measured = {}
           THEN c[1] = 0
           ELSE /\ c[2] = Cardinality(measured)
                /\ c[1] = SumOver([n \in measured |-> DecisionPointsPlusOne(n)], measured)
                /\ c[1] >= c[2]

\* a run has ended on a graph with a test node and two measured nodes of
\* complexity 16 and 1
C23_Witness ==
    /\ pc = "reported"
    /\ has_node(LastGraph, NodeOf(UserTestJs))
    /\ has_node(LastGraph, NodeOf(OrderserviceJs))
    /\ LastReport.metrics.cyclomatic_complexity = <<17, 2>>

-----------------------------------------------------------------------------
(* C24 *)

\* C24: test ratio.  When a run has ended on a graph that has a node, the
\* reported total_files is the number of nodes of the graph, and test_ratio
\* is set to the number of test nodes divided by the number of nodes, a value
\* from 0 to 1.
C24_TestRatio ==
    (pc = "reported" /\ LastGraph.nodes # <<>>) =>
        LET m == LastReport.metrics
            nodes == Range(LastGraph.nodes)
            tests == {n \in nodes : IsTestNode(n)}
        IN /\ m.total_files = Cardinality(nodes)
           /\ m.test_ratio # <<>>
           /\ m.test_ratio[1] * Cardinality(nodes) = Cardinality(tests) * m.test_ratio[2]
           /\ 0 <= m.test_ratio[1] /\ m.test_ratio[1] <= m.test_ratio[2]

\* over the '.js' nodes alone the counts are as stated, and the ratio is set
\* when there is such a node
TestRatioOverJsNodes ==
    pc = "reported" =>
        LET m == LastReport.metrics
            js == {n \in Range(LastGraph.nodes) : EndsWith(n, <<".js">>)}
            tests == {n \in js : IsTestNode(n)}
        IN /\ m.total_files = Cardinality(js)
           /\ m.test_files = Cardinality(tests)
           /\ m.test_ratio = IF js = {} THEN <<>> ELSE <<Cardinality(tests), Cardinality(js)>>

-----------------------------------------------------------------------------
(* C25 *)

\* the groups of the collected names and the size of each
DuplicationGroups == {NormalizedName(function_names[i]) : i \in DOMAIN function_names}

GroupSize(g) ==
    Cardinality({i \in DOMAIN function_names : NormalizedName(function_names[i]) = g})

RepeatedGroups == {g \in DuplicationGroups : GroupSize(g) > 1}

\* C25: the duplication estimate.  Once the estimate is made, it is the
\* number of groups of suffix-stripped names that have more than one member,
\* and it is 0 exactly when there is no such group.
C25_DuplicationCountsGroups ==
    pc = "measured" =>
        /\ duplicated_lines = Cardinality(RepeatedGroups)
        /\ duplicated_lines = 0 <=> RepeatedGroups = {}

\* C25, as the code has it: once the estimate is made, it is 10 lines for
\* every name beyond the first of its group, the groups being the lower-cased
\* names with one ending _test, _v<digits> or _<digits> taken off; it is 0
\* exactly when no group has more than one member.
C25_DuplicatedLines ==
    pc = "measured" =>
        /\ duplicated_lines =
              LinesPerDuplicate * (Len(function_names) - Cardinality(DuplicationGroups))
        /\ duplicated_lines = 0 <=> RepeatedGroups = {}

\* the estimate is made for save, save_v2, Save: one group of three
C25_Witness ==
    /\ pc = "measured"
    /\ function_names = <<(<<"save">>), <<"save", "_v2">>, <<"Save">>>>
    /\ Cardinality(RepeatedGroups) = 1
    /\ duplicated_lines = 20

-----------------------------------------------------------------------------
(* C26 *)

\* the layer detect_layer gives the file of node n
DetectedLayer(n) == LayerOfType(detect_layer(NodeFile(ProjectPath, n)))

\* the critical layer_isolation entries of the last report, as edges
CriticalEdges ==
    {<<v.file, v.dependency>> :
        v \in {w \in Range(LastReport.best_practices.layer_isolation) :
                  w.severity = "critical"}}

\* C26: layer-isolation precision.  When a run has ended, every critical
\* layer_isolation violation of the report is an edge of the graph from a
\* node the layer classifier puts in Domain to a node it puts in
\* Infrastructure, 'domain' being tested before 'infrastructure'.
C26_IsolationPrecision ==
    pc = "reported" =>
        \A e \in CriticalEdges :
            /\ e \in EdgeSet(LastGraph)
            /\ DetectedLayer(e[1]) = "Domain"
            /\ DetectedLayer(e[2]) = "Infrastructure"

\* every critical violation is an edge from a path that contains 'domain' to
\* a path that contains 'infrastructure'
CriticalByKeyword ==
    pc = "reported" =>
        \A e \in CriticalEdges :
            /\ e \in EdgeSet(LastGraph)
            /\ KwIn(<<"domain">>, e[1])
            /\ KwIn(<<"infrastructure">>, e[2])

-----------------------------------------------------------------------------
(* C27 *)

\* the rank of a layer
RankOfLayer(layer) ==
    CASE layer = "Domain" -> 1
      [] layer = "Application" -> 2
      [] layer = "Infrastructure" -> 3
      [] OTHER -> 2

\* the layer keywords found in the path of node n, as written
LayerKeywordsIn(n) ==
    {k \in {"domain", "application", "infrastructure"} : KwIn(<<k>>, n)}

\* C27: rank and layer agree.  When a run has ended, for every node of the
\* graph the rank get_layer_level gives its path is the rank of the layer
\* detect_layer gives its file: Domain 1, Application 2, Infrastructure 3,
\* Test and Other 2.
C27_RankMatchesLayer ==
    pc = "reported" =>
        \A n \in Range(LastGraph.nodes) :
            get_layer_level(n) = RankOfLayer(DetectedLayer(n))

\* the same against classify_file, the classifier of the graph's type attribute
RankMatchesClassifyFile ==
    pc = "reported" =>
        \A n \in Range(LastGraph.nodes) :
            get_layer_level(n) =
                RankOfLayer(LayerOfType(classify_file(NodeFile(ProjectPath, n))))

\* get_layer_level and detect_layer agree on every node whose path holds one
\* layer keyword at most, whatever its case
RankMatchesOnSingleLayerPaths ==
    pc = "reported" =>
        \A n \in Range(LastGraph.nodes) :
            (/\ Cardinality(LayerKeywordsIn(LowerPath(n))) <= 1
             /\ LayerKeywordsIn(LowerPath(n)) = LayerKeywordsIn(n))
                => get_layer_level(n) = RankOfLayer(DetectedLayer(n))

-----------------------------------------------------------------------------
(* C28 *)

\* the edges the dependency_direction entries of the last report name
DirectionEdges ==
    {<<v.source, v.target>> : v \in Range(LastReport.best_practices.dependency_direction)}

\* the edges the layer_isolation entries of the last report name
IsolationEdges ==
    {<<v.file, v.dependency>> : v \in Range(LastReport.best_practices.layer_isolation)}

\* C28: the structural rules do not overlap.  When a run has ended, no edge
\* of the graph is named both by a dependency_direction violation and by a
\* layer_isolation violation of the report.
C28_NoOverlap ==
    pc = "reported" => DirectionEdges \cap IsolationEdges = {}

\* a run has ended with an edge reported by each of the two rules
C28_Witness ==
    /\ pc = "reported"
    /\ <<NodeOf(UserJs), NodeOf(DbJs)>> \in IsolationEdges
    /\ <<NodeOf(BootstrapJs), NodeOf(UserJs)>> \in DirectionEdges

-----------------------------------------------------------------------------
(* C29 *)

\* C29: nodes are scanned files.  When a run has ended, every node of the
\* graph is the node of a file the walk has handed to
\* analyze_file_dependencies and has a layer type, and the reported
\* total_files is the number of nodes.
C29_NodesAreScannedFiles ==
    pc = "reported" =>
        /\ \A n \in Range(LastGraph.nodes) :
              n \in ScannedNodes /\ LastGraph.type[n] # "none"
        /\ LastReport.metrics.total_files = Cardinality(Range(LastGraph.nodes))

\* the nodes without a type are targets of resolved imports, and every
\* scanned file that can be read has a typed node
UntypedAreImportTargets ==
    pc = "reported" =>
        /\ \A n \in Range(LastGraph.nodes) :
              LastGraph.type[n] = "none" => \E e \in EdgeSet(LastGraph) : e[2] = n
        /\ \A f \in Range(ScannedFiles(walk, ProjectPath)) :
              fs[f].readable =>
                  has_node(LastGraph, NodeOf(f)) /\ LastGraph.type[NodeOf(f)] # "none"

-----------------------------------------------------------------------------
(* C30 *)

\* the smell entries of the report for node n that have the given type
SmellsOf(n, type) ==
    {<<i, j>> \in (DOMAIN LastReport.violations) \X (1..2) :
        /\ LastReport.violations[i].file = n
        /\ j \in DOMAIN LastReport.violations[i].smells
        /\ LastReport.violations[i].smells[j].type = type}

\* the '.js' nodes of the last graph whose file can be read
ReadableJsNodes ==
    {n \in Range(LastGraph.nodes) : EndsWith(n, <<".js">>) /\ CanRead(fs, ProjectPath, n)}

\* the symbols the file of node n declares, in order of appearance
DeclaredMethods(n) == MethodsOfLines(ContentOf(fs, ProjectPath, n).lines)

\* extract_methods returns the first 10 declared symbols at most
ExtractMethodsCapped ==
    \A f \in DOMAIN fs :
        LET declared == MethodsOfLines(fs[f].lines)
            methods == extract_methods(fs[f])
        IN /\ Len(methods) <= 10
           /\ Len(methods) = IF Len(declared) < 10 THEN Len(declared) ELSE 10
           /\ \A i \in DOMAIN methods : methods[i] = declared[i]

\* C30: too many methods.  extract_methods returns the first 10 declared
\* symbols at most, and when a run has ended the report holds a
\* too_many_methods smell for every readable '.js' node whose file declares
\* more than 10 methods.
C30_TooManyMethods ==
    /\ ExtractMethodsCapped
    /\ pc = "reported" =>
          \A n \in ReadableJsNodes :
              Len(DeclaredMethods(n)) > 10 => SmellsOf(n, "too_many_methods") # {}

\* no report ever holds a too_many_methods smell
NeverTooManyMethods ==
    pc = "reported" =>
        \A n \in Range(LastGraph.nodes) : SmellsOf(n, "too_many_methods") = {}

=============================================================================
